---- MODULE Spec2Model ----
(***************************************************************************)
(* Model of the disk monitor GUI (disk_monitor_gui.py): the background     *)
(* DiskMonitorWorker thread that samples per-process IO counters and folds *)
(* them into per-(pid, name) delta totals, and the DiskMonitorGUI that     *)
(* starts and stops workers, polls the result queue and shows the top N.   *)
(* The console monitor (disk_monitor.py, monitor_disk_activity), which     *)
(* sums the raw cumulative counters per name, is modelled beside it.       *)
(*                                                                         *)
(* Times are counted in tenths of a second, so that the interval floor of  *)
(* 0.1 s is the integer 1.  Megabyte values are kept as exact numerators   *)
(* over MB (a division by 2^20 is exact in binary floating point).         *)
(***************************************************************************)
EXTENDS Integers, Sequences, FiniteSets, TLC

\* ------------------------------------------------------------------ bounds
NumPids == 2          \* process ids the enumeration may yield: 1..NumPids
MaxTicks == 3         \* ticks of one run before the sleep outlasts the window
MaxRuns == 2          \* workers the GUI may create

\* -------------------------------------------------------- program constants
MinDuration == 1      \* max(1, int(duration_var.get())), seconds
MinInterval == 1      \* max(0.1, float(interval_var.get())), in tenths of a second
MinTopN == 1          \* max(1, int(top_var.get()))
TenthsPerSecond == 10 \* time unit of the model
MB == 1048576         \* 1024 * 1024

\* ------------------------------------------------------------ input domains
Pids == 1..NumPids
Runs == 1..MaxRuns
QueueIds == 0..MaxRuns
RawNames == {"", "a"}                  \* proc.info.get('name'): missing or given
Readings == {<<100, 50>>, <<150, 80>>, <<140, 90>>}   \* (read_bytes, write_bytes)
DurationVals == {0, 1}                 \* Duration entry, seconds
IntervalVals == {-5, 0, 5}             \* Interval entry, tenths of a second
TopVals == {0, 1}                      \* values typed into the Top N entry
DefaultTopN == 15                      \* tk.IntVar(value=15)
ConsoleDurations == {0, 1}             \* duration argument, seconds
ConsoleIntervals == {-5, 0, 5}         \* interval argument, tenths of a second
ConsoleTop == 15                       \* process_totals[:15]

NORMAL == "normal"
DISABLED == "disabled"
AlreadyInProgress == "Monitoring already in progress."
\* the ticks of the worked example of the delta rule, for process (1, "a")
Example == <<(<<100, 50>>), (<<150, 80>>), (<<140, 90>>)>>
ExampleKey == <<1, "a">>
NoPrev == <<>>                         \* prev_io.get(pid) is None

\* what the process enumeration and the counter reads may return in a run
FullEnv == [pids |-> Pids, names |-> RawNames, readings |-> Readings]
OneProcessEnv ==
    [pids |-> {1}, names |-> {"a"}, readings |-> {<<100, 50>>, <<150, 80>>}]

VARIABLES
    threads,        \* run id -> the DiskMonitorWorker created by that start
    worker,         \* DiskMonitorGUI.worker: a run id, 0 for None
    result_queue,   \* DiskMonitorGUI.result_queue: id of the current Queue
    queues,         \* queue id -> contents of that queue.Queue
    start_button, stop_button, export_button,
    status_var,
    tree,           \* rows of the Treeview (formatted)
    last_result,    \* DiskMonitorGUI._last_result (<<>> while unset)
    top_var,        \* the Top N entry
    messagebox,     \* the last message box shown
    delivered,      \* history: queue id -> results the poller took from it
    console         \* the frame of monitor_disk_activity (disk_monitor.py)

vars == <<threads, worker, result_queue, queues, start_button, stop_button,
          export_button, status_var, tree, last_result, top_var, messagebox,
          delivered, console>>

\* what a step of a worker thread leaves alone
gui == <<worker, result_queue, start_button, stop_button, export_button,
         status_var, tree, last_result, top_var, messagebox, delivered, console>>

\* ----------------------------------------------------------------- helpers
Max(a, b) == IF a >= b THEN a ELSE b
Min(a, b) == IF a <= b THEN a ELSE b

\* name = proc.info.get('name') or f"pid:{pid}"
NameOf(pid, raw) == IF raw = "" THEN "pid:" \o ToString(pid) ELSE raw

\* totals is a dict in insertion order: a sequence of entries with distinct keys
KeysOf(totals) == {totals[i].key : i \in 1..Len(totals)}

IndexOf(totals, key) == CHOOSE i \in 1..Len(totals) : totals[i].key = key

ReadOf(totals, key) ==
    IF key \in KeysOf(totals) THEN totals[IndexOf(totals, key)].read_bytes ELSE 0

WriteOf(totals, key) ==
    IF key \in KeysOf(totals) THEN totals[IndexOf(totals, key)].write_bytes ELSE 0

\* defaultdict(lambda: {'read_bytes': 0.0, 'write_bytes': 0.0}): totals[key]
\* inserts a zero entry at the end when the key is new
Touch(totals, key) ==
    IF key \in KeysOf(totals) THEN totals
    ELSE Append(totals, [key |-> key, read_bytes |-> 0, write_bytes |-> 0])

\* a delta that is not clamped at zero
DeltaUnclamped(cur, prv) == cur - prv

\* delta_read = max(0, read - prev[0])
Delta(cur, prv) == Max(0, cur - prv)

\* totals[key]['read_bytes'] += delta_read; totals[key]['write_bytes'] += delta_write
Accumulate(totals, key, delta_read, delta_write) ==
    LET t == Touch(totals, key)
        i == IndexOf(t, key)
    IN  [t EXCEPT ![i].read_bytes = @ + delta_read,
                  ![i].write_bytes = @ + delta_write]

\* a liveness test that ends with the sampling loop, before the result is put
IsAliveInLoop(r) == threads[r].pc \in {"start", "check", "iter", "fold", "sleep"}

\* the thread is alive from start() until run() has returned
IsAlive(r) == threads[r].pc \notin {"none", "dead"}

\* a worker that has not been created, and the frame of a worker not running
NoLocals == [idx |-> 0, pid |-> 0, name |-> "", read |-> 0, write |-> 0]

NoThread ==
    [pc |-> "none", duration |-> 0, interval |-> 0, top_n |-> 0, out_queue |-> 0,
     stop_event |-> FALSE, prev_io |-> [p \in Pids |-> NoPrev], totals |-> <<>>,
     left |-> 0, loc |-> NoLocals,
     \* history of the run: ticks begun, identities read, pids whose read failed,
     \* how far the successful reads have followed Example (-1: they left it),
     \* and per pid the snapshot it held when its read last failed, until it is
     \* read again
     ticks |-> 0, observed |-> {}, failed |-> {}, matched |-> 0,
     retained |-> [p \in Pids |-> NoPrev]]

\* monitor_disk_activity has not been called: no frame (seen is history: how
\* often each (name, counters) pair was read successfully in the call)
NotCalled ==
    [pc |-> "idle", duration |-> 0, interval |-> 0, left |-> 0, idx |-> 0,
     process_io |-> <<>>, samples |-> 0, report |-> <<>>,
     seen |-> [k \in RawNames \X Readings |-> 0]]

Init ==
    /\ threads = [r \in Runs |-> NoThread]
    /\ worker = 0
    /\ result_queue = 0
    /\ queues = [q \in QueueIds |-> <<>>]
    /\ start_button = NORMAL
    /\ stop_button = DISABLED
    /\ export_button = DISABLED
    /\ status_var = <<"Idle">>
    /\ tree = <<>>
    /\ last_result = <<>>
    /\ top_var = DefaultTopN
    /\ messagebox = "none"
    /\ delivered = [q \in QueueIds |-> 0]
    /\ console = NotCalled

\* ------------------------------------------------------ DiskMonitorWorker.run
\* prev_io = {}; totals = defaultdict(...); end_time = time.time() + self.duration
Begin(r) ==
    /\ threads[r].pc = "start"
    /\ threads' = [threads EXCEPT ![r].pc = "check",
                                  ![r].prev_io = [p \in Pids |-> NoPrev],
                                  ![r].totals = <<>>,
                                  ![r].left = threads[r].duration * TenthsPerSecond]
    /\ UNCHANGED <<queues, gui>>

\* a loop condition that does not look at the stop flag
LoopConditionIgnoresStop(t) == t.left > 0

\* while time.time() < end_time and not self.stopped():
LoopCondition(t) == t.left > 0 /\ ~t.stop_event

Check(r) ==
    /\ threads[r].pc = "check"
    /\ threads' = IF LoopCondition(threads[r])
                  THEN [threads EXCEPT ![r].pc = "iter", ![r].loc.idx = 1,
                                       ![r].ticks = @ + 1]
                  ELSE [threads EXCEPT ![r].pc = "put"]
    /\ UNCHANGED <<queues, gui>>

\* a failed read that has already looked its key up in the defaultdict
ReadFailedAfterLookup(t, p, nm) ==
    [t EXCEPT !.loc = [NoLocals EXCEPT !.idx = p + 1],
              !.totals = Touch(@, <<p, nm>>)]

\* a failed read that forgets the snapshot of the process
ReadFailedForgets(t, p, nm) ==
    [t EXCEPT !.loc = [NoLocals EXCEPT !.idx = p + 1], !.prev_io[p] = NoPrev]

\* a failed read that ends the enumeration of the tick
ReadFailedAbortsTick(t, p, nm) ==
    [t EXCEPT !.pc = "sleep", !.loc = [NoLocals EXCEPT !.idx = p + 1]]

\* except (psutil.NoSuchProcess, psutil.AccessDenied): continue
\* (pid and name are dead once the iteration is left, and are not kept)
ReadFailed(t, p, nm) ==
    [t EXCEPT !.loc = [NoLocals EXCEPT !.idx = p + 1]]

\* io = proc.io_counters(); read = io.read_bytes; write = io.write_bytes
ReadSucceeded(t, p, nm, rd) ==
    [t EXCEPT !.pc = "fold",
              !.loc = [idx |-> p + 1, pid |-> p, name |-> nm,
                       read |-> rd[1], write |-> rd[2]]]

\* for proc in psutil.process_iter(['pid', 'name']): the next live process, in
\* pid order, with the name it reports and the outcome of its counter read
IterFail(r, env) ==
    /\ threads[r].pc = "iter"
    /\ \E p \in env.pids, raw \in env.names :
          /\ p >= threads[r].loc.idx
          /\ threads' = [threads EXCEPT ![r] =
                            [ReadFailed(@, p, NameOf(p, raw))
                                EXCEPT !.failed = @ \cup {p},
                                       !.retained[p] = threads[r].prev_io[p]]]
    /\ UNCHANGED <<queues, gui>>

IterRead(r, env) ==
    /\ threads[r].pc = "iter"
    /\ \E p \in env.pids, raw \in env.names, rd \in env.readings :
          /\ p >= threads[r].loc.idx
          /\ threads' = [threads EXCEPT ![r] = ReadSucceeded(@, p, NameOf(p, raw), rd)]
    /\ UNCHANGED <<queues, gui>>

\* the enumeration is exhausted: fall through to time.sleep
IterEnd(r) ==
    /\ threads[r].pc = "iter"
    /\ threads' = [threads EXCEPT ![r].pc = "sleep"]
    /\ UNCHANGED <<queues, gui>>

\* prev = prev_io.get(pid) ... prev_io[pid] = (read, write)
\* (the locals of the iteration are dead after it, and are not kept)
FoldReading(t) ==
    LET l == t.loc
        prev == t.prev_io[l.pid]
        key == <<l.pid, l.name>>
    IN  IF prev = NoPrev
        THEN [t EXCEPT !.pc = "iter",
                       !.prev_io[l.pid] = <<l.read, l.write>>,
                       !.loc = [NoLocals EXCEPT !.idx = l.idx]]
        ELSE [t EXCEPT !.pc = "iter",
                       !.totals = Accumulate(@, key, Delta(l.read, prev[1]),
                                             Delta(l.write, prev[2])),
                       !.prev_io[l.pid] = <<l.read, l.write>>,
                       !.loc = [NoLocals EXCEPT !.idx = l.idx]]

\* history: the successful read of (key, rd) follows Example, or leaves it
Follow(matched, key, rd) ==
    IF /\ matched \in 0..(Len(Example) - 1)
       /\ key = ExampleKey
       /\ rd = Example[matched + 1]
    THEN matched + 1
    ELSE -1

Fold(r) ==
    /\ threads[r].pc = "fold"
    /\ LET l == threads[r].loc
       IN  threads' = [threads EXCEPT ![r] =
                          [FoldReading(@)
                              EXCEPT !.observed = @ \cup {<<l.pid, l.name>>},
                                     !.matched = Follow(@, <<l.pid, l.name>>,
                                                        <<l.read, l.write>>),
                                     !.retained[l.pid] = NoPrev]]
    /\ UNCHANGED <<queues, gui>>

\* the thread has ended: its frame is gone, the attributes of the object stay
Finished(t) ==
    [t EXCEPT !.pc = "dead", !.totals = <<>>, !.prev_io = [p \in Pids |-> NoPrev],
              !.loc = NoLocals, !.left = 0, !.ticks = 0, !.matched = 0,
              !.retained = [p \in Pids |-> NoPrev]]

\* time.sleep(self.interval): at least the interval passes; the sleep of the
\* MaxTicks-th tick outlasts the window
Sleep(r) ==
    /\ threads[r].pc = "sleep"
    /\ \E d \in {threads[r].interval, threads[r].left} :
          /\ d >= threads[r].interval
          /\ threads[r].ticks >= MaxTicks => d >= threads[r].left
          /\ threads' = IF threads[r].interval < 0
                        THEN [threads EXCEPT ![r] = Finished(@)]
                        ELSE [threads EXCEPT ![r].pc = "check",
                                             ![r].left = Max(0, @ - d)]
    /\ UNCHANGED <<queues, gui>>

\* out = {key: {...} for key in totals}; self.out_queue.put(out)
Put(r) ==
    /\ threads[r].pc = "put"
    /\ queues' = [queues EXCEPT ![threads[r].out_queue] = Append(@, threads[r].totals)]
    /\ threads' = [threads EXCEPT ![r].pc = "exit"]
    /\ UNCHANGED gui

\* run() returns: the thread ends and its frame is gone
Exit(r) ==
    /\ threads[r].pc = "exit"
    /\ threads' = [threads EXCEPT ![r] = Finished(@)]
    /\ UNCHANGED <<queues, gui>>

WorkerStep(r, env) ==
    \/ Begin(r)
    \/ Check(r)
    \/ IterFail(r, env)
    \/ IterRead(r, env)
    \/ IterEnd(r)
    \/ Fold(r)
    \/ Sleep(r)
    \/ Put(r)
    \/ Exit(r)

\* ------------------------------------------------------------ DiskMonitorGUI
\* a start that does not look at the worker
NeverRunning == FALSE

\* if self.worker and self.worker.is_alive():
AlreadyRunning == worker # 0 /\ IsAlive(worker)

\* the run the next accepted start creates
NextRun == 1 + Cardinality({r \in Runs : threads[r].pc # "none"})

ClampDuration(d) == Max(MinDuration, d)
ClampInterval(i) == Max(MinInterval, i)
ClampTopN(n) == Max(MinTopN, n)

\* DiskMonitorWorker(duration, interval, top_n, out_queue) and worker.start()
NewWorker(duration, interval, top_n, q) ==
    [NoThread EXCEPT !.pc = "start", !.duration = duration, !.interval = interval,
                     !.top_n = top_n, !.out_queue = q]

\* self.worker = DiskMonitorWorker(...) drops the GUI's reference to the worker
\* before: once its thread has ended, that object and its history are gone
Released(t) == IF t.pc = "dead" THEN [NoThread EXCEPT !.pc = "dead"] ELSE t

\* a start that leaves the Start button enabled
StartButtonLeftEnabled == NORMAL

\* self.start_button.config(state=tk.DISABLED) in start_monitor
StartButtonWhileMonitoring == DISABLED

\* start_monitor, the command of the Start button, with the entries holding
\* duration d (seconds) and interval i (tenths of a second)
StartMonitorWith(d, i) ==
    /\ start_button = NORMAL
    /\ IF AlreadyRunning
       THEN /\ messagebox' = AlreadyInProgress
            /\ UNCHANGED <<threads, worker, result_queue, queues, start_button,
                           stop_button, export_button, status_var, tree,
                           last_result, top_var, delivered, console>>
       ELSE /\ NextRun \in Runs
            /\ LET duration == ClampDuration(d)
                   interval == ClampInterval(i)
                   top_n == ClampTopN(top_var)
               IN  /\ threads' = [r \in Runs |->
                                     IF r = NextRun
                                     THEN NewWorker(duration, interval, top_n, NextRun)
                                     ELSE Released(threads[r])]
                   /\ status_var' = <<"Monitoring", duration, interval>>
            /\ start_button' = StartButtonWhileMonitoring
            /\ stop_button' = NORMAL
            /\ export_button' = DISABLED
            /\ tree' = <<>>
            /\ result_queue' = NextRun
            /\ queues' = [queues EXCEPT ![NextRun] = <<>>]
            /\ worker' = NextRun
            /\ UNCHANGED <<last_result, top_var, messagebox, delivered, console>>

StartMonitor == \E d \in DurationVals, i \in IntervalVals : StartMonitorWith(d, i)

\* a stop that flips the flag instead of setting it
StopToggles(t) == [t EXCEPT !.stop_event = ~@]

\* DiskMonitorWorker.stop: self._stop_event.set()
Stop(t) == [t EXCEPT !.stop_event = TRUE]

\* what stop_monitor reads and writes: the workers, the status line, the Stop button
Controls == [threads |-> threads, status_var |-> status_var, stop_button |-> stop_button]

\* the body of stop_monitor, applied to the controls g (stop() does not end the
\* thread, so the worker is as alive after it as before)
StopMonitorOn(g) ==
    IF worker # 0 /\ IsAlive(worker)
    THEN [threads |-> [g.threads EXCEPT ![worker] = Stop(@)],
          status_var |-> <<"Stopping">>,
          stop_button |-> DISABLED]
    ELSE g

\* stop_monitor, the command of the Stop button
StopMonitor ==
    /\ stop_button = NORMAL
    /\ LET g == StopMonitorOn(Controls)
       IN  /\ threads' = g.threads
           /\ status_var' = g.status_var
           /\ stop_button' = g.stop_button
    /\ UNCHANGED <<worker, result_queue, queues, start_button, export_button, tree,
                   last_result, top_var, messagebox, delivered, console>>

\* rows.append((pid, name, read_mb, write_mb, total_mb)) for each item of the
\* result, in the order of the dict; the _mb values are numerators over MB
RowOf(e) == <<e.key[1], e.key[2], e.read_bytes, e.write_bytes,
              e.read_bytes + e.write_bytes>>

RowsOf(result) == [i \in 1..Len(result) |-> RowOf(result[i])]

\* list.sort is stable, and with reverse=True it keeps the original order of
\* rows with equal keys: each row goes behind the rows whose total is not smaller
InsertDesc(sorted, row) ==
    LET k == Cardinality({i \in 1..Len(sorted) : sorted[i][5] >= row[5]})
    IN  SubSeq(sorted, 1, k) \o <<row>> \o SubSeq(sorted, k + 1, Len(sorted))

RECURSIVE SortFrom(_, _, _)
SortFrom(rows, i, acc) ==
    IF i > Len(rows) THEN acc ELSE SortFrom(rows, i + 1, InsertDesc(acc, rows[i]))

\* rows.sort(key=lambda r: r[4], reverse=True)
SortRows(rows) == SortFrom(rows, 1, <<>>)

\* rows[:top_n], a Python slice: a negative top_n counts from the end
Slice(rows, n) ==
    IF n >= 0 THEN SubSeq(rows, 1, Min(n, Len(rows)))
    ELSE SubSeq(rows, 1, Max(0, Len(rows) + n))

\* f"{x:.2f}" of x = b / MB, in hundredths, rounded half to even
Fmt2(b) ==
    LET q == (b * 100) \div MB
        rem == (b * 100) % MB
    IN  IF 2 * rem > MB THEN q + 1
        ELSE IF 2 * rem = MB THEN q + (q % 2)
        ELSE q

FormatRow(row) == <<row[1], row[2], Fmt2(row[3]), Fmt2(row[4]), Fmt2(row[5])>>

\* displayed = rows[:top_n] of the sorted rows, top_n = self.top_var.get()
Displayed(result, top_n) == Slice(SortRows(RowsOf(result)), top_n)

\* a poll that leaves the Start button disabled
StartButtonStaysDisabled == DISABLED

\* self.start_button.config(state=tk.NORMAL) in _periodic_poll
StartButtonAfterResult == NORMAL

\* _periodic_poll, re-armed with root.after(500, ...) on both of its paths
PollEmpty ==
    /\ queues[result_queue] = <<>>
    /\ UNCHANGED vars

PollResult ==
    /\ queues[result_queue] # <<>>
    /\ LET result == Head(queues[result_queue])
           displayed == Displayed(result, top_var)
       IN  /\ queues' = [queues EXCEPT ![result_queue] = Tail(@)]
           /\ tree' = tree \o [i \in 1..Len(displayed) |-> FormatRow(displayed[i])]
           /\ status_var' = <<"Done", Len(displayed)>>
           /\ last_result' = displayed
    /\ start_button' = StartButtonAfterResult
    /\ stop_button' = DISABLED
    /\ export_button' = NORMAL
    /\ delivered' = [delivered EXCEPT ![result_queue] = @ + 1]
    /\ UNCHANGED <<threads, worker, result_queue, top_var, messagebox, console>>

\* the user edits the Top N entry
SetTopN ==
    /\ \E n \in TopVals : top_var' = n
    /\ UNCHANGED <<threads, worker, result_queue, queues, start_button, stop_button,
                   export_button, status_var, tree, last_result, messagebox,
                   delivered, console>>

\* export_json, the command of the Export button; the dialog is cancelled, the
\* file is written, or the write fails
ExportJson ==
    /\ export_button = NORMAL
    /\ IF last_result = <<>>
       THEN messagebox' = "No data to export."
       ELSE messagebox' \in {messagebox, "Exported", "Failed to export"}
    /\ UNCHANGED <<threads, worker, result_queue, queues, start_button, stop_button,
                   export_button, status_var, tree, last_result, top_var, delivered,
                   console>>

\* the application: any number of runs, each sampling one process
Next ==
    \/ \E r \in Runs : WorkerStep(r, OneProcessEnv)
    \/ StartMonitor
    \/ StopMonitor
    \/ PollEmpty
    \/ PollResult
    \/ SetTopN
    \/ ExportJson

Spec == Init /\ [][Next]_vars

\* the worker thread is scheduled while it can step, and the poller, which
\* re-arms itself on each of its paths, takes a result that waits for it
FairSpec ==
    /\ Spec
    /\ WF_vars(\E r \in Runs : WorkerStep(r, OneProcessEnv))
    /\ WF_vars(PollResult)

\* the first run of the application, sampling every process of FullEnv
NextAgg ==
    \/ WorkerStep(1, FullEnv)
    \/ NextRun = 1 /\ StartMonitor
    \/ PollResult

SpecAgg == Init /\ [][NextAgg]_vars

\* ------------------------------------------- disk_monitor.monitor_disk_activity
\* the console program: one call of monitor_disk_activity(duration, interval)
\* what a step of the console program leaves alone
app == <<threads, worker, result_queue, queues, start_button, stop_button,
         export_button, status_var, tree, last_result, top_var, messagebox,
         delivered>>

\* process_io = defaultdict(...); start_time = time.time(); samples = 0
MonitorDiskActivity(duration, interval) ==
    /\ console.pc = "idle"
    /\ console' = [NotCalled EXCEPT !.pc = "check", !.duration = duration,
                                    !.interval = interval,
                                    !.left = duration * TenthsPerSecond]
    /\ UNCHANGED app

\* while time.time() - start_time < duration:
ConsoleCheck ==
    /\ console.pc = "check"
    /\ console' = IF console.left > 0
                  THEN [console EXCEPT !.pc = "iter", !.idx = 1]
                  ELSE [console EXCEPT !.pc = "report"]
    /\ UNCHANGED app

\* a key that keeps the processes of one name apart
KeyWithPid(pid, raw) == raw \o ":" \o ToString(pid)

\* name = proc.info['name']: the key of process_io is the name alone ("" when
\* the name is None)
ConsoleKey(pid, raw) == raw

\* process_io[name]: the defaultdict inserts a zero entry when the name is new
ConsoleTouch(process_io, name) ==
    IF \E i \in 1..Len(process_io) : process_io[i].name = name THEN process_io
    ELSE Append(process_io, [name |-> name, read |-> 0, write |-> 0])

\* process_io[name]['read'] += io.read_bytes; process_io[name]['write'] += io.write_bytes
StoreCumulative(process_io, name, rd) ==
    LET t == ConsoleTouch(process_io, name)
        i == CHOOSE i \in 1..Len(t) : t[i].name = name
    IN  [t EXCEPT ![i].read = @ + rd[1], ![i].write = @ + rd[2]]

\* except (psutil.NoSuchProcess, psutil.AccessDenied): continue
ConsoleIterFail ==
    /\ console.pc = "iter"
    /\ \E p \in Pids :
          /\ p >= console.idx
          /\ console' = [console EXCEPT !.idx = p + 1]
    /\ UNCHANGED app

\* io = proc.io_counters() ... process_io[name]['write'] += io.write_bytes
ConsoleIterRead ==
    /\ console.pc = "iter"
    /\ \E p \in Pids, raw \in RawNames, rd \in Readings :
          /\ p >= console.idx
          /\ console' = [console EXCEPT
                            !.idx = p + 1,
                            !.process_io = StoreCumulative(@, ConsoleKey(p, raw), rd),
                            !.seen[<<raw, rd>>] = @ + 1]
    /\ UNCHANGED app

\* the enumeration is exhausted: samples += 1
ConsoleIterEnd ==
    /\ console.pc = "iter"
    /\ console' = [console EXCEPT !.pc = "sleep", !.samples = @ + 1]
    /\ UNCHANGED app

\* time.sleep(interval): raises ValueError when the interval is negative, else
\* at least the interval passes; the sleep of the MaxTicks-th tick outlasts
\* the window
ConsoleSleep ==
    /\ console.pc = "sleep"
    /\ IF console.interval < 0
       THEN console' = [console EXCEPT !.pc = "raised"]
       ELSE \E d \in {console.interval, console.left} :
               /\ d >= console.interval
               /\ console.samples >= MaxTicks => d >= console.left
               /\ console' = [console EXCEPT !.pc = "check",
                                             !.left = Max(0, @ - d)]
    /\ UNCHANGED app

\* process_totals.append({'name': ..., 'read_mb': ..., 'write_mb': ..., 'total_mb': ...})
\* (numerators over MB)
ConsoleRowOf(e) == <<e.name, e.read, e.write, e.read + e.write>>

ConsoleInsertDesc(sorted, row) ==
    LET k == Cardinality({i \in 1..Len(sorted) : sorted[i][4] >= row[4]})
    IN  SubSeq(sorted, 1, k) \o <<row>> \o SubSeq(sorted, k + 1, Len(sorted))

RECURSIVE ConsoleSortFrom(_, _, _)
ConsoleSortFrom(rows, i, acc) ==
    IF i > Len(rows) THEN acc
    ELSE ConsoleSortFrom(rows, i + 1, ConsoleInsertDesc(acc, rows[i]))

\* process_totals.sort(key=lambda x: x['total_mb'], reverse=True)
ProcessTotals(process_io) ==
    ConsoleSortFrom([i \in 1..Len(process_io) |-> ConsoleRowOf(process_io[i])],
                    1, <<>>)

\* the lines printed for process_totals[:15], up to the first whose name is None
\* (f"{None:<30}" raises TypeError)
ReportLines(rows) ==
    LET top == Slice(rows, ConsoleTop)
        bad == {i \in 1..Len(top) : top[i][1] = ""}
        n == IF bad = {} THEN Len(top)
             ELSE (CHOOSE i \in bad : \A j \in bad : i <= j) - 1
    IN  [i \in 1..n |-> <<top[i][1], Fmt2(top[i][2]), Fmt2(top[i][3]), Fmt2(top[i][4])>>]

\* the loop has ended: sort, print the top 15 and the sample count
ConsoleReport ==
    /\ console.pc = "report"
    /\ LET rows == ProcessTotals(console.process_io)
           lines == ReportLines(rows)
       IN  console' = [console EXCEPT
                          !.report = lines,
                          !.pc = IF Len(lines) = Len(Slice(rows, ConsoleTop))
                                 THEN "done" ELSE "raised"]
    /\ UNCHANGED app

NextConsole ==
    \/ \E d \in ConsoleDurations, i \in ConsoleIntervals : MonitorDiskActivity(d, i)
    \/ ConsoleCheck
    \/ ConsoleIterFail
    \/ ConsoleIterRead
    \/ ConsoleIterEnd
    \/ ConsoleSleep
    \/ ConsoleReport

SpecConsole == Init /\ [][NextConsole]_vars

\* ===================================================================== claims
\* the step of worker r that folds the reading held in its locals (lines 73-85)
FoldStep(r) == threads[r].pc = "fold" /\ threads'[r].pc = "iter"

CurKey(r) == <<threads[r].loc.pid, threads[r].loc.name>>

\* C1: the first tick at which an identity (pid, name) is read successfully
\* adds zero to that identity's read and write totals, also when its pid was
\* read before under another name.
C1_FirstReadAddsZero ==
    [][\A r \in Runs :
          (FoldStep(r) /\ CurKey(r) \notin threads[r].observed)
              => /\ ReadOf(threads'[r].totals, CurKey(r)) = 0
                 /\ WriteOf(threads'[r].totals, CurKey(r)) = 0]_vars

\* C2: a successful read of a pid that has a stored snapshot adds to the totals
\* of the identity exactly current - prior where the counter did not decrease
\* and 0 where it did, read and write independently, and the stored snapshot
\* becomes the current one; and whenever the successful reads of a run are
\* (100,50), (150,80), (140,90) of one process, its totals are read 50 and
\* write 40 (total 90).
C2_DeltaStep(r) ==
    LET l == threads[r].loc
        prev == threads[r].prev_io[l.pid]
        key == CurKey(r)
    IN  (FoldStep(r) /\ prev # NoPrev)
            => /\ ReadOf(threads'[r].totals, key) - ReadOf(threads[r].totals, key)
                    = (IF l.read >= prev[1] THEN l.read - prev[1] ELSE 0)
               /\ WriteOf(threads'[r].totals, key) - WriteOf(threads[r].totals, key)
                    = (IF l.write >= prev[2] THEN l.write - prev[2] ELSE 0)
               /\ threads'[r].prev_io[l.pid] = <<l.read, l.write>>

C2_ExampleTotals(r) ==
    (threads[r].matched = Len(Example) /\ threads[r].pc # "dead")
        => /\ threads[r].totals =
                  <<[key |-> ExampleKey, read_bytes |-> 50, write_bytes |-> 40]>>
           /\ RowOf(threads[r].totals[1])[5] = 90

C2_ExactDeltas ==
    /\ [](\A r \in Runs : C2_ExampleTotals(r))
    /\ [][\A r \in Runs : C2_DeltaStep(r)]_vars

\* the three ticks of the example have been folded, one of them clamped
C2_Witness ==
    \E r \in Runs : threads[r].matched = Len(Example) /\ threads[r].pc = "exit"

\* the summary of run r has been taken from its queue and is the one shown
Shown(r) == result_queue = r /\ delivered[r] > 0

\* C3: the summary shown is sorted by descending total, and rows with equal
\* totals are in ascending pid order.
C3_SortedTotalThenPid ==
    \A i, j \in 1..Len(last_result) :
        i < j => \/ last_result[i][5] > last_result[j][5]
                 \/ /\ last_result[i][5] = last_result[j][5]
                    /\ last_result[i][1] <= last_result[j][1]

\* C4: the summary of a run has exactly min(top_n, number of identities read
\* at least once in the run) rows, top_n being the value the run started with.
C4_LengthMinTopObserved ==
    \A r \in Runs :
        Shown(r) => Len(last_result) =
                       Min(threads[r].top_n, Cardinality(threads[r].observed))

\* C5: a process whose counter read fails on every tick of a run has no entry
\* in the totals (so contributes zero to them) and no row in the summary.
PidsIn(totals) == {totals[i].key[1] : i \in 1..Len(totals)}

NeverRead(r) ==
    {p \in threads[r].failed : \A k \in threads[r].observed : k[1] # p}

C5_FailingProcessNoRow ==
    \A r \in Runs : \A p \in NeverRead(r) :
        /\ p \notin PidsIn(threads[r].totals)
        /\ \A i \in 1..Len(queues[r]) : p \notin PidsIn(queues[r][i])
        /\ Shown(r) => /\ \A i \in 1..Len(last_result) : last_result[i][1] # p
                       /\ \A i \in 1..Len(tree) : tree[i][1] # p

\* a run with a process that failed on each of several ticks, and another that
\* was read, has delivered its summary
C5_Witness ==
    \E r \in Runs :
        /\ Shown(r)
        /\ NeverRead(r) # {}
        /\ last_result # <<>>

\* C6: a start with duration <= 0 or top_n <= 0 fails before any tick: it
\* creates no worker and the controller stays as it was.
C6_BadConfigRejected ==
    [][\A d \in DurationVals, i \in IntervalVals :
          (StartMonitorWith(d, i) /\ (d <= 0 \/ top_var <= 0))
              => UNCHANGED <<threads, worker, result_queue, queues, start_button,
                             stop_button, status_var>>]_vars

\* the worker the GUI holds is alive
WorkerAlive == worker # 0 /\ threads[worker].pc \notin {"none", "dead"}

\* C7: a start while the worker is alive shows "already in progress" and changes
\* nothing else: the worker and its stop flag, the queues, the table, the
\* buttons, the status and the entries stay as they are.
C7_StartWhileRunningRejected ==
    [][(WorkerAlive /\ StartMonitor)
          => /\ messagebox' = AlreadyInProgress
             /\ UNCHANGED <<threads, worker, result_queue, queues, start_button,
                            stop_button, export_button, status_var, tree,
                            last_result, top_var, delivered>>]_vars

\* a start was rejected while the worker was alive
C7_Witness == WorkerAlive /\ messagebox = AlreadyInProgress

\* C8: at most one worker is alive, so at most one sampling loop is active.
Alive == {r \in Runs : threads[r].pc \notin {"none", "dead"}}

C8_AtMostOneLoop == Cardinality(Alive) <= 1

\* a second run is sampling after the first has ended
C8_Witness ==
    \E r \in Runs : r > 1 /\ threads[r].pc = "fold" /\ threads[r - 1].pc = "dead"

\* C9: the result of each run is put on its queue once, after the loop has
\* ended, and is taken by the poller once: until then it waits on the queue the
\* poller reads, after that the queue is empty, and nothing is taken from the
\* queue of another run.
Ended(r) == threads[r].pc \in {"exit", "dead"}

C9_DeliveredOnce ==
    /\ delivered[0] = 0
    /\ \A r \in Runs :
          /\ threads[r].pc \notin {"none", "dead"} => threads[r].out_queue = r
          /\ delivered[r] <= 1
          /\ ~Ended(r) => (queues[r] = <<>> /\ delivered[r] = 0)
          /\ (Ended(r) /\ delivered[r] = 0) => (Len(queues[r]) = 1 /\ result_queue = r)
          /\ delivered[r] = 1 => queues[r] = <<>>

\* two runs have each delivered their result
C9_Witness == \A r \in Runs : r <= 2 => delivered[r] = 1

C11_StopIdempotent ==
    /\ [](LET once == StopMonitorOn(Controls)
              twice == StopMonitorOn(once)
          IN  /\ ~WorkerAlive => once = Controls
              /\ twice = once)
    /\ [][(StopMonitor /\ ~WorkerAlive) => UNCHANGED vars]_vars

\* Stop was pressed during the second run, whose worker is still sampling
C11_Witness ==
    /\ worker = 2 /\ threads[2].pc = "fold" /\ threads[2].stop_event
    /\ status_var = <<"Stopping">> /\ stop_button = DISABLED

\* C12: a failed counter read aborts neither the tick nor the run. The step
\* changes nothing of the worker but the position of the enumeration, which
\* goes on to the next process; any later process of the tick is folded from
\* the state after the failure exactly as from the state before it; and the
\* loop is left only when the window has expired or a stop was requested.
WithoutHistory(t) == [t EXCEPT !.failed = {}, !.retained = [p \in Pids |-> NoPrev]]

C12_FailStep(r) ==
    IterFail(r, FullEnv)
        => /\ threads'[r].pc = "iter"
           /\ threads'[r].loc.idx > threads[r].loc.idx
           /\ threads'[r] = [threads[r] EXCEPT !.loc.idx = threads'[r].loc.idx,
                                               !.failed = threads'[r].failed,
                                               !.retained = threads'[r].retained]
           /\ \A p \in Pids, raw \in RawNames, rd \in Readings :
                 p >= threads'[r].loc.idx
                    => WithoutHistory(FoldReading(
                           ReadSucceeded(threads'[r], p, NameOf(p, raw), rd)))
                       = WithoutHistory(FoldReading(
                             ReadSucceeded(threads[r], p, NameOf(p, raw), rd)))
           /\ UNCHANGED <<queues, gui>>

C12_FailedReadSkipsOne ==
    /\ [][\A r \in Runs : C12_FailStep(r)]_vars
    /\ [](\A r \in Runs :
            threads[r].pc \in {"put", "exit"}
                => (threads[r].left = 0 \/ threads[r].stop_event))

\* the third tick begins after two ticks in which process 2 was read and folded
\* (100 -> 150) and in one of which the read of process 1, enumerated before it,
\* had failed
C12_Witness ==
    \E r \in Runs :
        /\ threads[r].pc = "iter" /\ threads[r].loc.idx = 1 /\ threads[r].ticks = 3
        /\ 1 \in threads[r].failed /\ threads[r].prev_io[1] = NoPrev
        /\ threads[r].totals =
              <<[key |-> <<2, "a">>, read_bytes |-> 50, write_bytes |-> 30]>>

\* C14: whatever interval is configured, zero and negative included, the
\* interval a sampling loop sleeps between two ticks is at least the floor of
\* 0.1 s; this is stated for the loop of the GUI worker and for the loop of
\* the console monitor.
WorkerIntervalFloor ==
    \A r \in Runs : threads[r].pc = "sleep" => threads[r].interval >= MinInterval

ConsoleIntervalFloor ==
    console.pc = "sleep" => console.interval >= MinInterval

C14_IntervalFloor == WorkerIntervalFloor /\ ConsoleIntervalFloor

\* C15: a tick changes the stored snapshot and the totals of a process only by
\* folding a successful read of that process; so a process that is absent from
\* the tick, or whose read fails in it, keeps both. A snapshot held when a read
\* failed is still the stored one until the process is read again, and that
\* read adds the clamped difference to the retained snapshot.
EntriesOf(totals, p) == {totals[i] : i \in {j \in 1..Len(totals) : totals[j].key[1] = p}}

C15_Frame(r, p) ==
    (threads'[r].pc # "dead" /\ ~(FoldStep(r) /\ threads[r].loc.pid = p))
        => /\ threads'[r].prev_io[p] = threads[r].prev_io[p]
           /\ EntriesOf(threads'[r].totals, p) = EntriesOf(threads[r].totals, p)

C15_NextRead(r) ==
    LET l == threads[r].loc
        kept == threads[r].retained[l.pid]
    IN  (FoldStep(r) /\ kept # NoPrev)
            => /\ ReadOf(threads'[r].totals, CurKey(r)) - ReadOf(threads[r].totals, CurKey(r))
                    = Max(0, l.read - kept[1])
               /\ WriteOf(threads'[r].totals, CurKey(r)) - WriteOf(threads[r].totals, CurKey(r))
                    = Max(0, l.write - kept[2])

C15_SkippedProcessKeepsState ==
    /\ [][\A r \in Runs : C15_NextRead(r) /\ \A p \in Pids : C15_Frame(r, p)]_vars
    /\ [](\A r \in Runs, p \in Pids :
            threads[r].retained[p] # NoPrev
                => threads[r].prev_io[p] = threads[r].retained[p])

\* process 1 was read in the first tick (100, 50), its read failed in the
\* second, and its read of the third tick (150, 80) is about to be folded
C15_Witness ==
    \E r \in Runs :
        /\ threads[r].pc = "fold" /\ threads[r].ticks = 3
        /\ threads[r].loc.pid = 1 /\ threads[r].loc.read = 150
        /\ threads[r].retained[1] = <<100, 50>>
        /\ threads[r].totals = <<>>

\* C16: the read total and the write total of every identity are non-negative
\* integers in every state of a run, and no step of the run decreases either,
\* whatever the counters read (decreasing counters included).
C16_NonNegative(t) ==
    \A i \in 1..Len(t.totals) :
        /\ t.totals[i].read_bytes \in Nat
        /\ t.totals[i].write_bytes \in Nat

C16_Monotone(r) ==
    threads'[r].pc # "dead"
        => \A k \in KeysOf(threads[r].totals) :
              /\ k \in KeysOf(threads'[r].totals)
              /\ ReadOf(threads'[r].totals, k) >= ReadOf(threads[r].totals, k)
              /\ WriteOf(threads'[r].totals, k) >= WriteOf(threads[r].totals, k)

C16_TotalsNeverDecrease ==
    /\ [](\A r \in Runs :
            /\ C16_NonNegative(threads[r])
            /\ \A i \in 1..Len(queues[r]) : C16_NonNegative([totals |-> queues[r][i]]))
    /\ [][\A r \in Runs : C16_Monotone(r)]_vars

\* a counter that went down (150 -> 140) has been folded: the read total stays
\* at 50 and the run goes on
C16_Witness ==
    \E r \in Runs :
        /\ threads[r].matched = Len(Example) /\ threads[r].pc = "iter"
        /\ ReadOf(threads[r].totals, ExampleKey) = 50
        /\ threads[r].prev_io[1] = <<140, 90>>

\* C17: cancellation is seen only at the loop condition. The request changes
\* nothing of the worker but its flag; a tick in flight goes on (its reads are
\* still taken and folded, and it ends in its sleep); and once the flag is
\* set no further tick begins: the next test of the condition ends the loop.
C17_Request(r) ==
    (threads[r].pc \notin {"none", "dead"}
        /\ threads'[r].stop_event # threads[r].stop_event)
        => threads'[r] = [threads[r] EXCEPT !.stop_event = TRUE]

C17_Stopped(r) ==
    (threads[r].stop_event /\ threads'[r].pc # "dead")
        => /\ threads'[r].ticks = threads[r].ticks
           /\ threads[r].pc \in {"iter", "fold"} => threads'[r].pc \in {"iter", "fold", "sleep"}
           /\ threads[r].pc = "sleep" => threads'[r].pc \in {"sleep", "check"}
           /\ threads[r].pc = "check" => threads'[r].pc \in {"check", "put"}

C17_StopAtTickBoundary ==
    /\ [][\A r \in Runs : C17_Request(r) /\ C17_Stopped(r)]_vars
    /\ [](\A r \in Runs :
            threads[r].stop_event
                => /\ threads[r].pc = "fold" => ENABLED Fold(r)
                   /\ (threads[r].pc = "iter" /\ threads[r].loc.idx = 1)
                         => ENABLED IterRead(r, OneProcessEnv))

\* stop was requested during the second tick, whose reading is being folded
C17_Witness ==
    \E r \in Runs :
        /\ threads[r].pc = "fold" /\ threads[r].stop_event /\ threads[r].ticks = 2
        /\ threads[r].left > 0

\* C18: in the console monitor the rows are keyed by the process name alone,
\* and the read (write) value of the row of name n is the sum of the raw
\* cumulative read (write) counters of all successful reads of processes named
\* n, over all ticks; processes of distinct pids that share a name share a row.
RECURSIVE SumSeen(_, _, _, _)
SumSeen(seen, n, k, rds) ==
    IF rds = {} THEN 0
    ELSE LET rd == CHOOSE x \in rds : TRUE
         IN  seen[<<n, rd>>] * rd[k] + SumSeen(seen, n, k, rds \ {rd})

C18_RowOfName(n) ==
    LET io == console.process_io
        rows == {i \in 1..Len(io) : io[i].name = n}
        reads == {rd \in Readings : console.seen[<<n, rd>>] > 0}
    IN  /\ reads = {} => rows = {}
        /\ reads # {}
              => /\ Cardinality(rows) = 1
                 /\ \A i \in rows :
                       /\ io[i].read = SumSeen(console.seen, n, 1, Readings)
                       /\ io[i].write = SumSeen(console.seen, n, 2, Readings)
                       /\ \E j \in 1..Len(io) :
                             ProcessTotals(io)[j] =
                                 <<n, io[i].read, io[i].write, io[i].read + io[i].write>>

C18_ConsoleSumsByName ==
    /\ \A n \in RawNames : C18_RowOfName(n)
    /\ \A i \in 1..Len(console.process_io) : console.process_io[i].name \in RawNames
    /\ Len(ProcessTotals(console.process_io)) = Len(console.process_io)

\* in the first tick two processes named "a" were read, (100, 50) and
\* (150, 80), and share the one row
C18_Witness ==
    /\ console.pc = "sleep" /\ console.samples = 1
    /\ console.process_io = <<[name |-> "a", read |-> 250, write |-> 130]>>

\* C19: while the worker is alive, or its result waits on the queue, the Start
\* and the Export button are disabled; the Start button is enabled again only
\* by the poll that takes the result of that run; and a start never replaces
\* a queue on which a result waits.
C19_Pending == WorkerAlive \/ queues[result_queue] # <<>>

C19_ControlsDisabledWhilePending ==
    /\ [](C19_Pending => (start_button = DISABLED /\ export_button = DISABLED))
    /\ [][(start_button = DISABLED /\ start_button' = NORMAL)
             => delivered'[result_queue] = delivered[result_queue] + 1]_vars
    /\ [][result_queue' # result_queue => queues[result_queue] = <<>>]_vars

====
